---- MODULE Spec2Model ----
(***************************************************************************)
(* Model of mergekit/architecture.py: declarative architecture definitions *)
(* (JsonArchitectureInfo), template substitution (_substitute with         *)
(* TemplateWithArithmetic), the hardcoded MixtralTensorNames plugin, the   *)
(* resolver _load_architecture_info and ConfiguredArchitectureInfo.        *)
(*                                                                         *)
(* Representation.  A Python str that may hold a template is a sequence of *)
(* symbols: "$", "{", "}", the arithmetic suffixes "+1" and "-1",          *)
(* identifiers (Idents) and literal text that does not start with an       *)
(* identifier character.  Joining the symbols gives the Python string.     *)
(* An Optional value is a sequence: <<>> is None, <<v>> is the value v.    *)
(* A call's outcome is a record [exc, type, value]: exc = NoExc for a      *)
(* normal return, otherwise the exception raised.                          *)
(***************************************************************************)
EXTENDS Integers, Sequences, FiniteSets, TLC

VARIABLES
    JSON_ARCHITECTURES, \* list of loaded definitions (architecture.py:364)
    NAME_TO_ARCH,       \* architecture name -> list of indices into JSON_ARCHITECTURES
    MISTRAL_INFO,       \* the reference definition of the plugin (architecture.py:365)
    config,             \* the configuration of the model being processed, Optional
    info,               \* the resolved ArchitectureInfo, Optional
    overrides,          \* ConfiguredArchitectureInfo.overrides, Optional dict
    result              \* the last call and its outcome

vars == <<JSON_ARCHITECTURES, NAME_TO_ARCH, MISTRAL_INFO, config, info, overrides, result>>

----------------------------------------------------------------------------
(* Bounds of the model *)

MaxLayers == 2
MaxWeights == 2
MaxExperts == 8
MaxDefinitions == 2
MaxIndex == 10

----------------------------------------------------------------------------
(* Outcomes of calls *)

NoExc == "NoExc"
None == <<>>
Some(v) == <<v>>

Return(type, value) == [exc |-> NoExc, type |-> type, value |-> value]
Raise(exc) == [exc |-> exc, type |-> "NoneType", value |-> <<>>]
Raised(r) == r.exc # NoExc

\* getattr(config, key) on a configuration without that attribute
ConfigAttributeError == "AttributeError: config has no such attribute"
\* getattr(config, None)
GetattrTypeError == "TypeError: attribute name must be string"
\* self.overrides on a JsonArchitectureInfo, whose only field is definition
OverridesAttributeError == "AttributeError: JsonArchitectureInfo has no attribute overrides"
\* string.Template.substitute: a placeholder with no entry in the mapping
TemplateKeyError == "KeyError: placeholder"
\* string.Template.substitute: a delimiter that starts no placeholder
TemplateValueError == "ValueError: Invalid placeholder in string"
\* overrides[segment] on a dict without that key
OverridesKeyError == "KeyError: overrides"
UnsupportedConfiguration == "RuntimeError: More than one architecture in config?"
UnsupportedArchitecture == "RuntimeError: Unsupported architecture"
UnsupportedModelType == "RuntimeError: Unsupported model_type"

----------------------------------------------------------------------------
(* str(int): the decimal text of an integer *)

Digit(d) == <<"0", "1", "2", "3", "4", "5", "6", "7", "8", "9">>[d + 1]

RECURSIVE NatToStr(_)
NatToStr(n) == IF n < 10 THEN Digit(n) ELSE NatToStr(n \div 10) \o Digit(n % 10)

IntToStr(n) == IF n < 0 THEN "-" \o NatToStr(0 - n) ELSE NatToStr(n)

\* The Python string a symbol sequence stands for
RECURSIVE Join(_)
Join(s) == IF s = <<>> THEN "" ELSE Head(s) \o Join(Tail(s))

----------------------------------------------------------------------------
(* TemplateWithArithmetic: string.Template with                            *)
(* idpattern = [_a-z][_a-z0-9]*([+-]1)?                                    *)

Delimiter == "$"
Idents == {"layer_index", "num_layers", "model", "h", "foo"}
Arith == {"+1", "-1"}

\* "{" in obj_dict[key]
HasBrace(s) == \E i \in 1..Len(s) : s[i] = "{"

\* The match of the template pattern at a delimiter at position i of s:
\* escaped | named | braced | invalid, tried in that order.
\* kind, the placeholder's name, and the number of symbols matched.
MatchAt(s, i) ==
    LET at(k) == IF i + k <= Len(s) THEN s[i + k] ELSE ""
    IN  IF at(1) = Delimiter
            THEN [kind |-> "escaped", id |-> "", len |-> 2]
        ELSE IF at(1) \in Idents
            THEN IF at(2) \in Arith
                    THEN [kind |-> "named", id |-> at(1) \o at(2), len |-> 3]
                    ELSE [kind |-> "named", id |-> at(1), len |-> 2]
        ELSE IF at(1) = "{" /\ at(2) \in Idents /\ at(3) = "}"
            THEN [kind |-> "braced", id |-> at(2), len |-> 4]
        ELSE IF at(1) = "{" /\ at(2) \in Idents /\ at(3) \in Arith /\ at(4) = "}"
            THEN [kind |-> "braced", id |-> at(2) \o at(3), len |-> 5]
        ELSE [kind |-> "invalid", id |-> "", len |-> 1]

\* first, then rest: the exception of the first that raised, otherwise the
\* list of first's value followed by the values of rest
Cons(first, rest) ==
    IF Raised(first) THEN first
    ELSE IF Raised(rest) THEN rest
    ELSE Return(rest.type, <<first.value>> \o rest.value)

\* first, then rest, both lists: the exception of the first that raised,
\* otherwise the concatenation
Extend(first, rest) ==
    IF Raised(first) THEN first
    ELSE IF Raised(rest) THEN rest
    ELSE Return(rest.type, first.value \o rest.value)

\* Template(s).substitute(mapping), scanning s from position i; m is the
\* match at a delimiter at i
RECURSIVE TemplateSubstituteFrom(_, _, _)
RECURSIVE TemplateSubstituteMatch(_, _, _, _)
TemplateSubstituteFrom(s, i, mapping) ==
    IF i > Len(s) THEN Return("str", <<>>)
    ELSE IF s[i] # Delimiter
        THEN Cons(Return("str", s[i]), TemplateSubstituteFrom(s, i + 1, mapping))
        ELSE TemplateSubstituteMatch(s, i, mapping, MatchAt(s, i))

TemplateSubstituteMatch(s, i, mapping, m) ==
    IF m.kind = "invalid" THEN Raise(TemplateValueError)
    ELSE IF m.kind = "escaped"
        THEN Cons(Return("str", Delimiter), TemplateSubstituteFrom(s, i + m.len, mapping))
    ELSE IF m.id \notin DOMAIN mapping THEN Raise(TemplateKeyError)
    ELSE Cons(Return("str", IntToStr(mapping[m.id])),
              TemplateSubstituteFrom(s, i + m.len, mapping))

TemplateSubstitute(s, mapping) == TemplateSubstituteFrom(s, 1, mapping)

----------------------------------------------------------------------------
(* WeightInfo, ProceduralSpaceInfo, JSONArchitectureDefinition *)

\* WeightInfo(name=name): every other field at its default
WeightInfo(name) ==
    [cls |-> "WeightInfo", name |-> name, is_embed |-> FALSE, is_lm_head |-> FALSE,
     input_space |-> None, output_space |-> None, optional |-> FALSE, aliases |-> None]

ProceduralSpaceInfo(name, inputs) ==
    [cls |-> "ProceduralSpaceInfo", name |-> name, type |-> "residual", inputs |-> inputs]

\* procedural_spaces of the two levels are Optional lists; None is the empty list
\* here, which is how every reader takes it ("... or []").
JSONArchitectureDefinition(model_type, architectures, pre, layer, post, spaces, layer_spaces, key) ==
    [expected_model_type |-> model_type,
     architectures |-> architectures,
     pre_weights |-> pre,
     layer_templates |-> [weights |-> layer, procedural_spaces |-> layer_spaces],
     post_weights |-> post,
     procedural_spaces |-> spaces,
     num_layers_config_key |-> key]

JsonArchitectureInfo(definition) ==
    [class |-> "JsonArchitectureInfo", definition |-> definition]

\* getattr(config, name, 0): a default in place of the AttributeError
GetattrOrZero(cfg, name) ==
    IF name = None THEN Raise(GetattrTypeError)
    ELSE IF name[1] \notin DOMAIN cfg.attrs THEN Return("int", 0)
    ELSE Return("int", cfg.attrs[name[1]])

\* getattr(config, name)
Getattr(cfg, name) ==
    IF name = None THEN Raise(GetattrTypeError)
    ELSE IF name[1] \notin DOMAIN cfg.attrs THEN Raise(ConfigAttributeError)
    ELSE Return("int", cfg.attrs[name[1]])

----------------------------------------------------------------------------
(* ArchitectureInfo: num_layers_config_key, num_layers *)

ArchitectureInfo_num_layers_config_key == Some("num_hidden_layers")

JsonArchitectureInfo_num_layers_config_key(self) ==
    self.definition.num_layers_config_key

MixtralTensorNames_num_layers_config_key ==
    JsonArchitectureInfo_num_layers_config_key(MISTRAL_INFO)

\* self.num_layers_config_key(), dispatched on the class of self
num_layers_config_key(self) ==
    IF self.class = "JsonArchitectureInfo"
        THEN JsonArchitectureInfo_num_layers_config_key(self)
        ELSE MixtralTensorNames_num_layers_config_key

ArchitectureInfo_num_layers(self, cfg) == Getattr(cfg, num_layers_config_key(self))

----------------------------------------------------------------------------
(* JsonArchitectureInfo._substitute *)

\* The table with every placeholder standing for the plain number
SubstitutionsNoArithmetic(num_layers, layer_idx) ==
    LET always == [k \in {"num_layers", "num_layers+1", "num_layers-1"} |-> num_layers]
        layer == [k \in {"layer_index", "layer_index+1", "layer_index-1"} |-> layer_idx[1]]
    IN  IF layer_idx = None THEN always ELSE layer @@ always

\* substitutions = {"num_layers": ..., "num_layers+1": ..., "num_layers-1": ...}
\* and, if layer_idx is not None, the three layer_index entries
Substitutions(num_layers, layer_idx) ==
    LET always == [k \in {"num_layers", "num_layers+1", "num_layers-1"} |->
                      CASE k = "num_layers" -> num_layers
                        [] k = "num_layers+1" -> num_layers + 1
                        [] k = "num_layers-1" -> num_layers - 1]
        layer == [k \in {"layer_index", "layer_index+1", "layer_index-1"} |->
                      CASE k = "layer_index" -> layer_idx[1]
                        [] k = "layer_index+1" -> layer_idx[1] + 1
                        [] k = "layer_index-1" -> layer_idx[1] - 1]
    IN  IF layer_idx = None THEN always ELSE layer @@ always

\* Some(r) of a returned str
SomeOf(r) == IF Raised(r) THEN r ELSE Return("str", Some(r.value))

\* One entry of obj_dict: an Optional str is substituted when it is a str
\* that contains "{"; anything else is left as it is.
SubstituteField(v, substitutions) ==
    IF v # None /\ HasBrace(v[1])
        THEN SomeOf(TemplateSubstitute(v[1], substitutions))
        ELSE Return("str", v)

\* type(item).model_validate(obj_dict) of a ProceduralSpaceInfo
ValidateSpace(item, name) ==
    IF Raised(name) THEN name
    ELSE Return("ProceduralSpaceInfo", [item EXCEPT !.name = name.value[1]])

\* type(item).model_validate(obj_dict) of a WeightInfo
ValidateWeight(item, name, inp, outp) ==
    IF Raised(name) THEN name
    ELSE IF Raised(inp) THEN inp
    ELSE IF Raised(outp) THEN outp
    ELSE Return("WeightInfo", [item EXCEPT !.name = name.value[1],
                                           !.input_space = inp.value,
                                           !.output_space = outp.value])

\* The loop over obj_dict.  The str-valued fields of item in the order
\* model_dump lists them: name, then for a WeightInfo input_space and
\* output_space.  The type of a ProceduralSpaceInfo is "residual" and its
\* inputs are a list, as the aliases of a WeightInfo are: not a str, so never
\* substituted.
SubstituteItem(item, substitutions) ==
    IF item.cls = "ProceduralSpaceInfo"
        THEN ValidateSpace(item, SubstituteField(Some(item.name), substitutions))
        ELSE ValidateWeight(item, SubstituteField(Some(item.name), substitutions),
                            SubstituteField(item.input_space, substitutions),
                            SubstituteField(item.output_space, substitutions))

\* _substitute once num_layers has been read (or has raised)
SubstituteWith(item, num_layers, layer_idx) ==
    IF Raised(num_layers) THEN num_layers
    ELSE SubstituteItem(item, Substitutions(num_layers.value, layer_idx))

JsonArchitectureInfo_substitute(self, item, cfg, layer_idx) ==
    SubstituteWith(item, ArchitectureInfo_num_layers(self, cfg), layer_idx)

\* [self._substitute(x, config, layer_idx) for x in items]: the first
\* exception ends the comprehension.
RECURSIVE SubstituteAll(_, _, _, _, _)
SubstituteAll(self, items, cfg, layer_idx, type) ==
    IF items = <<>> THEN Return(type, <<>>)
    ELSE Cons(JsonArchitectureInfo_substitute(self, Head(items), cfg, layer_idx),
              SubstituteAll(self, Tail(items), cfg, layer_idx, type))

----------------------------------------------------------------------------
(* JsonArchitectureInfo: pre_weights, layer_weights, post_weights,         *)
(* procedural_spaces                                                       *)

\* The fields of the pydantic model JsonArchitectureInfo
JsonArchitectureInfoFields == {"definition"}

\* self.overrides on a JsonArchitectureInfo: attribute access on a pydantic
\* model raises AttributeError for a name that is no field of it.
JsonArchitectureInfo_overrides(self) ==
    IF "overrides" \in JsonArchitectureInfoFields
        THEN Return("dict", self.overrides)
        ELSE Raise(OverridesAttributeError)

\* A dict str -> list of the overrides: the keys it holds and, for each of
\* the two segment keys, its list (empty when the key is absent)
Dict(keys, pre, post) == [keys |-> keys, pre_weights |-> pre, post_weights |-> post]

\* bool(d) of an Optional dict: None and the empty dict are false
Truthy(d) == d # None /\ d[1].keys # {}

\* name in names, on the Python strings
NameIn(name, names) == \E i \in 1..Len(names) : Join(names[i]) = Join(name)

\* [wi for wi in weights if wi.name in names]
RECURSIVE FilterByName(_, _)
FilterByName(weights, names) ==
    IF weights = <<>> THEN <<>>
    ELSE IF NameIn(Head(weights).name, names)
        THEN <<Head(weights)>> \o FilterByName(Tail(weights), names)
        ELSE FilterByName(Tail(weights), names)

\* The tail shared by pre_weights and post_weights, "if self.overrides: ...",
\* given the substituted weights and the outcome ov of reading self.overrides
FilterByOverrides(weights, ov, segment) ==
    IF Raised(weights) THEN weights
    ELSE IF Raised(ov) THEN ov
    ELSE IF ~Truthy(ov.value) THEN weights
    ELSE IF segment \notin ov.value[1].keys THEN Raise(OverridesKeyError)
    ELSE Return("List[WeightInfo]", FilterByName(weights.value, ov.value[1][segment]))

JsonArchitectureInfo_pre_weights(self, cfg) ==
    FilterByOverrides(SubstituteAll(self, self.definition.pre_weights, cfg, None,
                                    "List[WeightInfo]"),
                      JsonArchitectureInfo_overrides(self), "pre_weights")

JsonArchitectureInfo_layer_weights(self, index, cfg) ==
    SubstituteAll(self, self.definition.layer_templates.weights, cfg, Some(index),
                  "List[WeightInfo]")

JsonArchitectureInfo_post_weights(self, cfg) ==
    FilterByOverrides(SubstituteAll(self, self.definition.post_weights, cfg, None,
                                    "List[WeightInfo]"),
                      JsonArchitectureInfo_overrides(self), "post_weights")

\* The second loop of procedural_spaces, for idx in range(idx, num_layers)
RECURSIVE LayerSpacesFrom(_, _, _, _)
LayerSpacesFrom(self, cfg, idx, num_layers) ==
    IF idx >= num_layers THEN Return("List[ProceduralSpaceInfo]", <<>>)
    ELSE Extend(SubstituteAll(self, self.definition.layer_templates.procedural_spaces,
                              cfg, Some(idx), "List[ProceduralSpaceInfo]"),
                LayerSpacesFrom(self, cfg, idx + 1, num_layers))

\* The second loop once num_layers has been read (or has raised)
LayerSpaces(self, cfg, num_layers) ==
    IF Raised(num_layers) THEN num_layers
    ELSE LayerSpacesFrom(self, cfg, 0, num_layers.value)

JsonArchitectureInfo_procedural_spaces(self, cfg) ==
    Extend(SubstituteAll(self, self.definition.procedural_spaces, cfg, None,
                         "List[ProceduralSpaceInfo]"),
           LayerSpaces(self, cfg, ArchitectureInfo_num_layers(self, cfg)))

----------------------------------------------------------------------------
(* MixtralTensorNames *)

ARCHITECTURE_NAME == "MixtralForCausalLM"

MixtralTensorNames(num_local_experts) ==
    [class |-> "MixtralTensorNames", num_local_experts |-> num_local_experts]

\* MixtralTensorNames(num_local_experts=n) of an attribute that was read
FromExperts(n) ==
    IF Raised(n) THEN n ELSE Return("ArchitectureInfo", MixtralTensorNames(n.value))

MixtralTensorNames_from_config(cfg) == FromExperts(Getattr(cfg, Some("num_local_experts")))

MixtralTensorNames_pre_weights(cfg) == JsonArchitectureInfo_pre_weights(MISTRAL_INFO, cfg)

MixtralTensorNames_post_weights(cfg) == JsonArchitectureInfo_post_weights(MISTRAL_INFO, cfg)

MixtralParams == <<"w1", "w2", "w3">>

\* The tensor name without the index of the expert
ExpertTensorNameNoExpert(index, expert_idx, param) ==
    <<"model", ".layers.", IntToStr(index), ".block_sparse_moe.experts.", param, ".weight">>

\* prefix + f".block_sparse_moe.experts.{expert_idx}.{param}.weight"
ExpertTensorName(index, expert_idx, param) ==
    <<"model", ".layers.", IntToStr(index), ".block_sparse_moe.experts.",
      IntToStr(expert_idx), ".", param, ".weight">>

\* prefix + ".block_sparse_moe.gate.weight"
GateTensorName(index) ==
    <<"model", ".layers.", IntToStr(index), ".block_sparse_moe.gate.weight">>

\* The loop over range(expert_idx, num_experts) and over the three parameters
RECURSIVE ExpertTensorNamesFrom(_, _, _)
ExpertTensorNamesFrom(index, expert_idx, num_experts) ==
    IF expert_idx >= num_experts THEN <<>>
    ELSE [p \in 1..Len(MixtralParams) |-> ExpertTensorName(index, expert_idx, MixtralParams[p])]
         \o ExpertTensorNamesFrom(index, expert_idx + 1, num_experts)

\* res = [WeightInfo(name=name) for name in tensor_names]
WeightInfos(tensor_names) ==
    Return("List[WeightInfo]", [k \in 1..Len(tensor_names) |-> WeightInfo(tensor_names[k])])

MixtralTensorNames_layer_weights(self, index, cfg) ==
    WeightInfos(ExpertTensorNamesFrom(index, 0, self.num_local_experts)
                \o <<GateTensorName(index)>>)

\* ArchitectureInfo.procedural_spaces, which the plugin inherits
ArchitectureInfo_procedural_spaces(self, cfg) == Return("List[ProceduralSpaceInfo]", <<>>)

----------------------------------------------------------------------------
(* The calls of the ArchitectureInfo interface, dispatched on the class *)

pre_weights(self, cfg) ==
    IF self.class = "JsonArchitectureInfo"
        THEN JsonArchitectureInfo_pre_weights(self, cfg)
        ELSE MixtralTensorNames_pre_weights(cfg)

post_weights(self, cfg) ==
    IF self.class = "JsonArchitectureInfo"
        THEN JsonArchitectureInfo_post_weights(self, cfg)
        ELSE MixtralTensorNames_post_weights(cfg)

layer_weights(self, index, cfg) ==
    IF self.class = "JsonArchitectureInfo"
        THEN JsonArchitectureInfo_layer_weights(self, index, cfg)
        ELSE MixtralTensorNames_layer_weights(self, index, cfg)

procedural_spaces(self, cfg) ==
    IF self.class = "JsonArchitectureInfo"
        THEN JsonArchitectureInfo_procedural_spaces(self, cfg)
        ELSE ArchitectureInfo_procedural_spaces(self, cfg)

\* for layer_idx in range(layer_idx, num_layers): res.extend(self.layer_weights(...))
RECURSIVE AllLayerWeightsFrom(_, _, _, _)
AllLayerWeightsFrom(self, cfg, layer_idx, num_layers) ==
    IF layer_idx >= num_layers THEN Return("List[WeightInfo]", <<>>)
    ELSE Extend(layer_weights(self, layer_idx, cfg),
                AllLayerWeightsFrom(self, cfg, layer_idx + 1, num_layers))

\* all_weights once num_layers has been read (or has raised): the
\* pre-layer weights, the layers in ascending order, the post-layer weights
AllWeightsWith(self, cfg, num_layers) ==
    IF Raised(num_layers) THEN num_layers
    ELSE Extend(pre_weights(self, cfg),
                Extend(AllLayerWeightsFrom(self, cfg, 0, num_layers.value),
                       post_weights(self, cfg)))

ArchitectureInfo_all_weights(self, cfg) ==
    AllWeightsWith(self, cfg, ArchitectureInfo_num_layers(self, cfg))

----------------------------------------------------------------------------
(* ConfiguredArchitectureInfo *)

ConfiguredArchitectureInfo_num_layers(self_info, cfg, ov) ==
    ArchitectureInfo_num_layers(self_info, cfg)

ConfiguredArchitectureInfo_pre_weights(self_info, cfg, ov) ==
    IF ~Truthy(ov) THEN pre_weights(self_info, cfg)
    ELSE IF "pre_weights" \notin ov[1].keys THEN Raise(OverridesKeyError)
    ELSE Return("List[str]", ov[1]["pre_weights"])

ConfiguredArchitectureInfo_post_weights(self_info, cfg, ov) ==
    IF ~Truthy(ov) THEN post_weights(self_info, cfg)
    ELSE IF "post_weights" \notin ov[1].keys THEN Raise(OverridesKeyError)
    ELSE Return("List[str]", ov[1]["post_weights"])

ConfiguredArchitectureInfo_layer_weights(self_info, cfg, ov, index) ==
    layer_weights(self_info, index, cfg)

ConfiguredArchitectureInfo_procedural_spaces(self_info, cfg, ov) ==
    procedural_spaces(self_info, cfg)

ConfiguredArchitectureInfo_all_weights(self_info, cfg, ov) ==
    ArchitectureInfo_all_weights(self_info, cfg)

----------------------------------------------------------------------------
(* _load_all_architectures, _load_architecture_info *)

\* name_to_arch[name] = name_to_arch.get(name, []); name_to_arch[name].append(arch_info)
AppendUnder(name_to_arch, name, arch_info) ==
    (name :> Append(IF name \in DOMAIN name_to_arch THEN name_to_arch[name] ELSE <<>>,
                    arch_info))
    @@ name_to_arch

\* for name in arch_info.definition.architectures
RECURSIVE AppendUnderNames(_, _, _)
AppendUnderNames(name_to_arch, names, arch_info) ==
    IF names = <<>> THEN name_to_arch
    ELSE AppendUnderNames(AppendUnder(name_to_arch, Head(names), arch_info),
                          Tail(names), arch_info)

\* for arch_info in architectures
RECURSIVE NameToArchFrom(_, _)
NameToArchFrom(name_to_arch, architectures) ==
    IF architectures = <<>> THEN name_to_arch
    ELSE NameToArchFrom(
             AppendUnderNames(name_to_arch, Head(architectures).definition.architectures,
                              Head(architectures)),
             Tail(architectures))

load_all_architectures(architectures) == NameToArchFrom(<<>>, architectures)

\* The first candidate, whatever its model type
FirstCandidate(candidates, model_type) ==
    IF candidates = <<>> THEN Raise(UnsupportedModelType)
    ELSE Return("ArchitectureInfo", Head(candidates))

\* for c in candidates: if c.definition.expected_model_type == config.model_type
RECURSIVE FirstOfModelType(_, _)
FirstOfModelType(candidates, model_type) ==
    IF candidates = <<>> THEN Raise(UnsupportedModelType)
    ELSE IF Head(candidates).definition.expected_model_type = model_type
        THEN Return("ArchitectureInfo", Head(candidates))
        ELSE FirstOfModelType(Tail(candidates), model_type)

\* The choice among the candidates under the declared name
Select(candidates, cfg) ==
    IF Len(candidates) = 1 THEN Return("ArchitectureInfo", candidates[1])
    ELSE FirstOfModelType(candidates, cfg.model_type)

load_architecture_info(name_to_arch, cfg) ==
    IF Len(cfg.architectures) # 1 THEN Raise(UnsupportedConfiguration)
    ELSE IF cfg.architectures[1] = ARCHITECTURE_NAME THEN MixtralTensorNames_from_config(cfg)
    ELSE IF cfg.architectures[1] \notin DOMAIN name_to_arch THEN Raise(UnsupportedArchitecture)
    ELSE Select(name_to_arch[cfg.architectures[1]], cfg)

----------------------------------------------------------------------------
(* Inputs: definitions, configurations and overrides *)

\* PretrainedConfig: the declared architectures, the model type and the
\* integer attributes the code reads with getattr
PretrainedConfig(architectures, model_type, attrs) ==
    [architectures |-> architectures, model_type |-> model_type, attrs |-> attrs]

NoAttrs == [k \in {} |-> 0]

Braced(id) == <<"$", "{", id, "}">>

\* The k-th pre-layer, layer-template and post-layer descriptor of the
\* definitions of Spec, and their procedural spaces
PreWeightAt(k) ==
    [WeightInfo(<<"model", ".pre", IntToStr(k), ".of">> \o Braced("num_layers") \o <<".weight">>)
        EXCEPT !.is_embed = (k = 1), !.output_space = Some(<<"h", ".0">>)]

LayerWeightAt(k) ==
    [WeightInfo(<<"model", ".layers.">> \o Braced("layer_index") \o <<".w", IntToStr(k), ".weight">>)
        EXCEPT !.input_space = Some(<<"h", ".">> \o Braced("layer_index")),
               !.optional = (k = 2)]

PostWeightAt(k) ==
    [WeightInfo(<<"model", ".post", IntToStr(k), ".weight">>)
        EXCEPT !.is_lm_head = (k = 1), !.input_space = Some(<<"h", ".">> \o Braced("num_layers")),
               !.aliases = IF k = 1 THEN Some(<<(<<"lm_head", ".weight">>)>>) ELSE None]

GlobalSpaceAt(k) ==
    ProceduralSpaceInfo(<<"h", ".out", IntToStr(k), ".">> \o Braced("num_layers"), <<(<<"h", ".0">>)>>)

LayerSpaceAt(k) ==
    ProceduralSpaceInfo(<<"h", ".", IntToStr(k), ".">> \o <<"$", "{", "layer_index", "+1", "}">>,
                        <<(<<"h", ".">> \o Braced("layer_index"))>>)

\* num_layers_config_key of a definition: not set, the conventional key,
\* another key
ConfigKeys == {None, Some("num_hidden_layers"), Some("n_layer")}

\* A definition with P pre-layer, L layer-template and Q post-layer
\* descriptors and GS global and GS per-layer procedural spaces
EnumDefinition(P, L, Q, GS, key) ==
    JSONArchitectureDefinition("a", <<"X">>,
        [k \in 1..P |-> PreWeightAt(k)], [k \in 1..L |-> LayerWeightAt(k)],
        [k \in 1..Q |-> PostWeightAt(k)], [k \in 1..GS |-> GlobalSpaceAt(k)],
        [k \in 1..GS |-> LayerSpaceAt(k)], key)

\* The definitions of Spec: every size under the conventional key, and one
\* size under each other value of the key
EnumDefinitions ==
    { EnumDefinition(P, L, Q, GS, Some("num_hidden_layers")) :
        P \in 0..MaxWeights, L \in 0..MaxWeights, Q \in 0..MaxWeights, GS \in 0..1 }
    \cup { EnumDefinition(1, 1, 1, 1, key) : key \in ConfigKeys }

\* The attributes of a configuration that hold a layer count: none, the
\* conventional key, or both keys with different counts
LayerCountAttrs ==
    {NoAttrs}
    \cup { "num_hidden_layers" :> n : n \in 0..MaxLayers }
    \cup { ("n_layer" :> 1) @@ ("num_hidden_layers" :> MaxLayers) }

EnumConfigs ==
    { PretrainedConfig(<<"X">>, "a", attrs) : attrs \in LayerCountAttrs }
    \cup { PretrainedConfig(<<ARCHITECTURE_NAME>>, "mixtral", ("num_local_experts" :> 1) @@ attrs) :
             attrs \in LayerCountAttrs }

\* The concrete name of a definition descriptor for layer count n
ConcreteName(wi, n) == TemplateSubstitute(wi.name, Substitutions(n, None)).value

ForeignName == <<"model", ".other.weight">>

\* Override dicts for a definition and a layer count: none, the empty dict,
\* one naming the first descriptor of each segment, one naming the last and
\* the first in that order, one naming a name of no descriptor, and one
\* without the post_weights key.
OverrideChoices(definition, n) ==
    LET pre == definition.pre_weights
        post == definition.post_weights
        first(ws) == IF ws = <<>> THEN <<>> ELSE <<ConcreteName(ws[1], n)>>
        swapped(ws) == IF ws = <<>> THEN <<>>
                       ELSE <<ConcreteName(ws[Len(ws)], n), ConcreteName(ws[1], n)>>
        both == {"pre_weights", "post_weights"}
    IN  { None,
          Some(Dict({}, <<>>, <<>>)),
          Some(Dict(both, first(pre), first(post))),
          Some(Dict(both, swapped(pre), swapped(post))),
          Some(Dict(both, <<ForeignName>>, <<>>)),
          Some(Dict({"pre_weights"}, first(pre), <<>>)) }

----------------------------------------------------------------------------
(* Actions: one per call of the caller *)

\* A behaviour is one session of the caller: the import, the resolution of
\* one configuration, at most one update_overrides, then one call.  The calls
\* are pure and update_overrides replaces the whole dict, so every combination
\* of resolved architecture, configuration, overrides and call outcome that a
\* longer session reaches is reached by a session of this shape.
Call(op, args, out) == [op |-> op, args |-> args, out |-> out]

SetupOps == {"_load_architecture_info", "update_overrides"}

\* info = _load_architecture_info(config), then
\* ConfiguredArchitectureInfo(info=info, config=config, overrides=None)
LoadArchitectureInfo(cfg) ==
    LET r == load_architecture_info(NAME_TO_ARCH, cfg)
    IN  /\ config = None
        /\ config' = Some(cfg)
        /\ info' = IF Raised(r) THEN None ELSE Some(r.value)
        /\ overrides' = None
        /\ result' = Call("_load_architecture_info", <<>>, r)
        /\ UNCHANGED <<JSON_ARCHITECTURES, NAME_TO_ARCH, MISTRAL_INFO>>

\* ConfiguredArchitectureInfo.update_overrides(o)
UpdateOverrides(o) ==
    /\ info # None
    /\ result.op = "_load_architecture_info"
    /\ overrides' = o
    /\ result' = Call("update_overrides", <<>>, Return("ConfiguredArchitectureInfo", <<>>))
    /\ UNCHANGED <<JSON_ARCHITECTURES, NAME_TO_ARCH, MISTRAL_INFO, config, info>>

Observe(op, args, out) ==
    /\ info # None
    /\ result.op \in SetupOps
    /\ result' = Call(op, args, out)
    /\ UNCHANGED <<JSON_ARCHITECTURES, NAME_TO_ARCH, MISTRAL_INFO, config, info, overrides>>

ArchNumLayers ==
    info # None /\ Observe("info.num_layers", <<>>, ArchitectureInfo_num_layers(info[1], config[1]))

ArchPreWeights ==
    info # None /\ Observe("info.pre_weights", <<>>, pre_weights(info[1], config[1]))

ArchPostWeights ==
    info # None /\ Observe("info.post_weights", <<>>, post_weights(info[1], config[1]))

ArchLayerWeights(index) ==
    info # None /\ Observe("info.layer_weights", <<index>>, layer_weights(info[1], index, config[1]))

ArchAllWeights ==
    info # None /\ Observe("info.all_weights", <<>>, ArchitectureInfo_all_weights(info[1], config[1]))

ArchProceduralSpaces ==
    info # None /\ Observe("info.procedural_spaces", <<>>, procedural_spaces(info[1], config[1]))

ConfNumLayers ==
    info # None /\ Observe("num_layers", <<>>,
                           ConfiguredArchitectureInfo_num_layers(info[1], config[1], overrides))

ConfPreWeights ==
    info # None /\ Observe("pre_weights", <<>>,
                           ConfiguredArchitectureInfo_pre_weights(info[1], config[1], overrides))

ConfPostWeights ==
    info # None /\ Observe("post_weights", <<>>,
                           ConfiguredArchitectureInfo_post_weights(info[1], config[1], overrides))

ConfLayerWeights(index) ==
    info # None /\ Observe("layer_weights", <<index>>,
                           ConfiguredArchitectureInfo_layer_weights(info[1], config[1], overrides, index))

ConfAllWeights ==
    info # None /\ Observe("all_weights", <<>>,
                           ConfiguredArchitectureInfo_all_weights(info[1], config[1], overrides))

ConfProceduralSpaces ==
    info # None /\ Observe("procedural_spaces", <<>>,
                           ConfiguredArchitectureInfo_procedural_spaces(info[1], config[1], overrides))

\* The calls on a resolved architecture and its configured form
Calls ==
    \/ ArchNumLayers
    \/ ArchPreWeights
    \/ ArchPostWeights
    \/ \E index \in 0..MaxLayers : ArchLayerWeights(index)
    \/ ArchAllWeights
    \/ ArchProceduralSpaces
    \/ ConfNumLayers
    \/ ConfPreWeights
    \/ ConfPostWeights
    \/ \E index \in 0..MaxLayers : ConfLayerWeights(index)
    \/ ConfAllWeights
    \/ ConfProceduralSpaces

\* The layer count of the bound configuration as the definition reads it,
\* 0 when it cannot be read
BoundLayerCount ==
    LET n == ArchitectureInfo_num_layers(info[1], config[1])
    IN  IF Raised(n) THEN 0 ELSE n.value

----------------------------------------------------------------------------
(* Spec: one loaded definition, which is also the plugin's reference       *)
(* definition (mistral.json is one of the bundled definitions)             *)

Loaded(architectures) ==
    /\ JSON_ARCHITECTURES = architectures
    /\ NAME_TO_ARCH = load_all_architectures(architectures)
    /\ config = None
    /\ info = None
    /\ overrides = None
    /\ result = Call("import", <<>>, Return("NoneType", <<>>))

Init ==
    \E d \in EnumDefinitions :
        /\ Loaded(<<JsonArchitectureInfo(d)>>)
        /\ MISTRAL_INFO = JsonArchitectureInfo(d)

Next ==
    \/ \E cfg \in EnumConfigs : LoadArchitectureInfo(cfg)
    \/ /\ info # None
       /\ \E o \in OverrideChoices(JSON_ARCHITECTURES[1].definition, BoundLayerCount) :
              UpdateOverrides(o)
    \/ Calls

Spec == Init /\ [][Next]_vars

----------------------------------------------------------------------------
(* What the claims speak of, in the state of a session *)

IsJson == info # None /\ info[1].class = "JsonArchitectureInfo"
IsMixtral == info # None /\ info[1].class = "MixtralTensorNames"

\* The definition whose pre- and post-layer weights the resolved
\* architecture serves: its own, or the plugin's reference definition
ServedDefinition == IF IsJson THEN info[1].definition ELSE MISTRAL_INFO.definition

\* The configuration supplies the layer count under the key the resolved
\* architecture names
LayerCountReadable ==
    info # None /\ ~Raised(ArchitectureInfo_num_layers(info[1], config[1]))

\* The layer-count key is a name and the configuration has no such attribute
LayerCountMissing ==
    /\ info # None
    /\ num_layers_config_key(info[1]) # None
    /\ num_layers_config_key(info[1])[1] \notin DOMAIN config[1].attrs

\* The descriptor a definition entry stands for, for layer count n and, for a
\* layer-scoped entry, layer index idx[1]
Substituted(item, n, idx) == SubstituteItem(item, Substitutions(n, idx)).value

SubstitutedAll(items, n, idx) == [k \in 1..Len(items) |-> Substituted(items[k], n, idx)]

----------------------------------------------------------------------------
(* C1 *)

\* C1: for a definition with P pre-layer, L layer-template and Q post-layer
\* weights and a configuration whose layer count is N >= 0, all_weights
\* returns exactly P + N*L + Q descriptors: the P pre-layer descriptors in
\* definition order, then for each layer 0..N-1 in ascending order the L
\* descriptors of that layer in template order, then the Q post-layer ones.
C1_AllWeightsIsPreLayersPost ==
    (IsJson /\ result.op = "info.all_weights" /\ LayerCountReadable /\ BoundLayerCount >= 0)
    => LET d == info[1].definition
           P == Len(d.pre_weights)
           L == Len(d.layer_templates.weights)
           Q == Len(d.post_weights)
           N == BoundLayerCount
           v == result.out.value
       IN  /\ ~Raised(result.out)
           /\ Len(v) = P + N * L + Q
           /\ \A k \in 1..P : v[k] = Substituted(d.pre_weights[k], N, None)
           /\ \A i \in 0..(N - 1) : \A t \in 1..L :
                  v[P + i * L + t] = Substituted(d.layer_templates.weights[t], N, Some(i))
           /\ \A k \in 1..Q : v[P + N * L + k] = Substituted(d.post_weights[k], N, None)

----------------------------------------------------------------------------
(* C2 *)

\* C2: with a bound, non-empty override, pre_weights() and post_weights() of
\* a ConfiguredArchitectureInfo return the descriptors of the definition,
\* substituted, in definition order and with every field intact, whose
\* substituted name is in that segment's override list: a list of
\* descriptors, not of names.
C2_OverrideFiltersDescriptors ==
    (/\ info # None
     /\ result.op \in {"pre_weights", "post_weights"}
     /\ Truthy(overrides)
     /\ overrides[1].keys = {"pre_weights", "post_weights"}
     /\ LayerCountReadable)
    => /\ ~Raised(result.out)
       /\ result.out.value = <<>> \/ result.out.type = "List[WeightInfo]"
       /\ result.out.value =
              FilterByName(SubstitutedAll(ServedDefinition[result.op], BoundLayerCount, None),
                           overrides[1][result.op])

----------------------------------------------------------------------------
(* C3 *)

\* C3: with no override bound, pre_weights and post_weights of a declarative
\* architecture return every pre-layer, respectively post-layer, descriptor
\* of the definition after substitution, one per entry and in definition
\* order, and raise nothing for a configuration that supplies the layer count.
C3_NoOverrideReturnsEveryDescriptor ==
    (/\ IsJson
     /\ \/ result.op \in {"info.pre_weights", "info.post_weights"}
        \/ result.op \in {"pre_weights", "post_weights"} /\ ~Truthy(overrides)
     /\ LayerCountReadable)
    => LET segment == IF result.op \in {"info.pre_weights", "pre_weights"}
                         THEN "pre_weights" ELSE "post_weights"
       IN  /\ ~Raised(result.out)
           /\ result.out.value =
                  SubstitutedAll(info[1].definition[segment], BoundLayerCount, None)

----------------------------------------------------------------------------
(* C8 *)

InfoCalls ==
    {"info.num_layers", "info.all_weights", "info.pre_weights", "info.post_weights",
     "info.layer_weights", "info.procedural_spaces"}

\* C8 as stated: if the configuration has no attribute under the
\* architecture's layer-count key, then num_layers, all_weights, pre_weights,
\* post_weights, layer_weights and procedural_spaces each fail with a
\* configuration error, and none of them returns a list.  Any exception is
\* taken here for the failure, and a declarative layer_weights over an empty
\* layer template, which has nothing to substitute, is left aside: only a
\* call that returns where there was something to enumerate refutes it.
C8_EveryCallFails ==
    (/\ LayerCountMissing
     /\ result.op \in InfoCalls
     /\ ~(/\ IsJson
          /\ result.op = "info.layer_weights"
          /\ info[1].definition.layer_templates.weights = <<>>))
    => Raised(result.out)

\* C8 amended: if the configuration has no attribute under the
\* architecture's layer-count key, then num_layers and all_weights fail with
\* the configuration error; so do pre_weights and post_weights when the
\* segment of the served definition has a descriptor, and, of a declarative
\* architecture, procedural_spaces, and layer_weights when the layer template
\* has a descriptor.  A declarative layer_weights over an empty layer template
\* returns the empty list, which is the whole list; the plugin's
\* layer_weights and procedural_spaces do not read the layer count and return
\* what they return for any configuration: 3 * E + 1 descriptors, and no space.
C8_MissingLayerCount ==
    (LayerCountMissing /\ result.op \in InfoCalls)
    => LET out == result.out
           d == ServedDefinition
       IN  /\ result.op \in {"info.num_layers", "info.all_weights"}
                  => out.exc = ConfigAttributeError
           /\ (result.op = "info.pre_weights" /\ d.pre_weights # <<>>)
                  => out.exc = ConfigAttributeError
           /\ (result.op = "info.post_weights" /\ d.post_weights # <<>>)
                  => out.exc = ConfigAttributeError
           /\ (result.op = "info.procedural_spaces" /\ IsJson)
                  => out.exc = ConfigAttributeError
           /\ (result.op = "info.procedural_spaces" /\ IsMixtral)
                  => out = Return("List[ProceduralSpaceInfo]", <<>>)
           /\ (result.op = "info.layer_weights" /\ IsJson)
                  => IF info[1].definition.layer_templates.weights # <<>>
                         THEN out.exc = ConfigAttributeError
                         ELSE out = Return("List[WeightInfo]", <<>>)
           /\ (result.op = "info.layer_weights" /\ IsMixtral)
                  => ~Raised(out) /\ Len(out.value) = 3 * info[1].num_local_experts + 1

\* A declarative architecture with a layer-template descriptor, a
\* configuration without the layer count, and layer_weights failing with the
\* configuration error
C8_Witness ==
    /\ LayerCountMissing
    /\ IsJson
    /\ info[1].definition.layer_templates.weights # <<>>
    /\ result.op = "info.layer_weights"
    /\ result.out.exc = ConfigAttributeError

----------------------------------------------------------------------------
(* C9 *)

\* C9: a declarative definition that does not set num_layers_config_key has
\* its layer count read from the conventional key num_hidden_layers; one that
\* sets it, from the named key; the plugin uses the key of its reference
\* definition.
C9_LayerCountKey ==
    (info # None /\ result.op = "info.num_layers")
    => LET set == ServedDefinition.num_layers_config_key
           key == IF set = None THEN "num_hidden_layers" ELSE set[1]
       IN  key \in DOMAIN config[1].attrs
               => result.out = Return("int", config[1].attrs[key])

----------------------------------------------------------------------------
(* C10 *)

\* The concatenation of the own layer_weights(i) for i = idx..n-1
RECURSIVE OwnLayersFrom(_, _)
OwnLayersFrom(idx, n) ==
    IF idx >= n THEN <<>>
    ELSE ConfiguredArchitectureInfo_layer_weights(info[1], config[1], overrides, idx).value
         \o OwnLayersFrom(idx + 1, n)

\* C10: for every ConfiguredArchitectureInfo, with or without a bound
\* override, all_weights() is its own pre_weights(), then its layer_weights(i)
\* for i = 0..num_layers()-1 in ascending order, then its own post_weights().
C10_AllWeightsIsOwnSegments ==
    (info # None /\ result.op = "all_weights" /\ LayerCountReadable)
    => LET pre == ConfiguredArchitectureInfo_pre_weights(info[1], config[1], overrides)
           post == ConfiguredArchitectureInfo_post_weights(info[1], config[1], overrides)
           n == BoundLayerCount
           layers_return == \A i \in 0..(n - 1) :
               ~Raised(ConfiguredArchitectureInfo_layer_weights(info[1], config[1], overrides, i))
       IN  (~Raised(pre) /\ ~Raised(post) /\ layers_return)
               => /\ ~Raised(result.out)
                  /\ result.out.value = pre.value \o OwnLayersFrom(0, n) \o post.value

----------------------------------------------------------------------------
(* SpecResolve: several loaded definitions that share architecture names   *)

\* The reference definition of the plugin, one of the bundled definitions
MistralDefinition ==
    JSONArchitectureDefinition("mistral", <<"MistralForCausalLM">>, <<PreWeightAt(1)>>,
                               <<LayerWeightAt(1)>>, <<PostWeightAt(1)>>, <<>>, <<>>,
                               Some("num_hidden_layers"))

\* Lists of architecture names of a definition: one name, two names, one
\* name twice, the name of the plugin
NameLists == {<<"X">>, <<"Y">>, <<"X", "Y">>, <<"X", "X">>, <<ARCHITECTURE_NAME>>}

ResolveDefinitions ==
    { JSONArchitectureDefinition(model_type, names, <<>>, <<LayerWeightAt(1)>>, <<>>, <<>>, <<>>,
                                 Some("num_hidden_layers")) :
        model_type \in {"a", "b"}, names \in NameLists }

\* The sequences over S of length at most n
SeqsUpTo(S, n) == UNION { [1..k -> S] : k \in 0..n }

ResolveConfigs ==
    { PretrainedConfig(names, model_type, attrs) :
        names \in {<<>>, <<"X">>, <<"Y">>, <<"Z">>, <<ARCHITECTURE_NAME>>, <<"X", "Y">>},
        model_type \in {"a", "b", "c"},
        attrs \in { "num_hidden_layers" :> 1,
                    ("num_hidden_layers" :> 1) @@ ("num_local_experts" :> 2) } }

InitResolve ==
    \E ds \in SeqsUpTo(ResolveDefinitions, MaxDefinitions) :
        /\ Loaded([k \in 1..(Len(ds) + 1) |->
                      JsonArchitectureInfo(IF k = 1 THEN MistralDefinition ELSE ds[k - 1])])
        /\ MISTRAL_INFO = JsonArchitectureInfo(MistralDefinition)

NextResolve == \E cfg \in ResolveConfigs : LoadArchitectureInfo(cfg)

SpecResolve == InitResolve /\ [][NextResolve]_vars

----------------------------------------------------------------------------
(* C4 *)

\* The positions, in load order, of the definitions that list a name
Carriers(name) ==
    { i \in 1..Len(JSON_ARCHITECTURES) :
        \E j \in 1..Len(JSON_ARCHITECTURES[i].definition.architectures) :
            JSON_ARCHITECTURES[i].definition.architectures[j] = name }

\* The number of times the definition at position i lists a name
Listed(i, name) ==
    Cardinality({ j \in 1..Len(JSON_ARCHITECTURES[i].definition.architectures) :
                    JSON_ARCHITECTURES[i].definition.architectures[j] = name })

\* The carriers of a name whose expected model type is the configuration's
Matching(name) ==
    { i \in Carriers(name) :
        JSON_ARCHITECTURES[i].definition.expected_model_type = config[1].model_type }

Least(S) == CHOOSE i \in S : \A j \in S : i <= j

ResolvedOneName ==
    /\ result.op = "_load_architecture_info"
    /\ Len(config[1].architectures) = 1

\* C4 as stated: when two or more loaded definitions share the declared
\* name, the resolver returns the one whose expected model type is the
\* configuration's and fails with the unsupported-model-type error when none
\* matches; when exactly one definition carries the name it is returned; when
\* none does the resolver fails with the unsupported-architecture error.
C4_ResolvesByName ==
    ResolvedOneName
    => LET name == config[1].architectures[1]
           out == result.out
       IN  /\ Cardinality(Carriers(name)) >= 2
                  => IF Matching(name) = {} THEN out.exc = UnsupportedModelType
                     ELSE /\ ~Raised(out)
                          /\ \E i \in Matching(name) : out.value = JSON_ARCHITECTURES[i]
           /\ Cardinality(Carriers(name)) = 1
                  => /\ ~Raised(out)
                     /\ \E i \in Carriers(name) : out.value = JSON_ARCHITECTURES[i]
           /\ Carriers(name) = {} => out.exc = UnsupportedArchitecture

\* C4 amended: for a declared name other than the plugin's
\* (MixtralForCausalLM, which resolves to the plugin whatever is loaded):
\* when the name is listed two or more times by the loaded definitions (by
\* several of them, or twice by one), the resolver returns the first
\* definition in load order among those listing it whose expected model type
\* is the configuration's, and fails with the unsupported-model-type error
\* when none matches; when it is listed once, that definition is returned
\* whatever its model type; when it is not listed, the resolver fails with the
\* unsupported-architecture error.
C4_ResolvesByNameThenModelType ==
    (ResolvedOneName /\ config[1].architectures[1] # ARCHITECTURE_NAME)
    => LET name == config[1].architectures[1]
           out == result.out
           once == /\ Cardinality(Carriers(name)) = 1
                   /\ \A i \in Carriers(name) : Listed(i, name) = 1
       IN  IF Carriers(name) = {} THEN out.exc = UnsupportedArchitecture
           ELSE IF once
               THEN out = Return("ArchitectureInfo", JSON_ARCHITECTURES[Least(Carriers(name))])
           ELSE IF Matching(name) = {} THEN out.exc = UnsupportedModelType
           ELSE out = Return("ArchitectureInfo", JSON_ARCHITECTURES[Least(Matching(name))])

\* Two definitions share the declared name, the second in load order has the
\* configuration's model type, and it is the one returned
C4_Witness ==
    /\ ResolvedOneName
    /\ config[1].architectures[1] = "X"
    /\ Cardinality(Carriers("X")) = 2
    /\ Cardinality(Matching("X")) = 1
    /\ Least(Matching("X")) # Least(Carriers("X"))
    /\ result.out = Return("ArchitectureInfo", JSON_ARCHITECTURES[Least(Matching("X"))])

----------------------------------------------------------------------------
(* SpecMixtral: the plugin, for each expert count and layer index *)

MixtralConfigs ==
    { PretrainedConfig(<<ARCHITECTURE_NAME>>, "mixtral",
                       ("num_local_experts" :> e) @@ ("num_hidden_layers" :> n)) :
        e \in 0..MaxExperts, n \in 0..MaxLayers }

InitMixtral ==
    /\ Loaded(<<JsonArchitectureInfo(MistralDefinition)>>)
    /\ MISTRAL_INFO = JsonArchitectureInfo(MistralDefinition)

NextMixtral ==
    \/ \E cfg \in MixtralConfigs : LoadArchitectureInfo(cfg)
    \/ \E index \in 0..MaxIndex : ArchLayerWeights(index)

SpecMixtral == InitMixtral /\ [][NextMixtral]_vars

----------------------------------------------------------------------------
(* C5 *)

\* C5: for the plugin constructed with expert count E >= 0, layer_weights for
\* layer index L returns exactly 3 * E + 1 descriptors with pairwise distinct
\* names: for each expert 0..E-1 in ascending order its sub-tensors w1, w2, w3
\* of layer L in that order, then the routing gate of layer L, last.
C5_ExpertsThenGate ==
    (IsMixtral /\ result.op = "info.layer_weights")
    => LET E == info[1].num_local_experts
           L == IntToStr(result.args[1])
           v == result.out.value
           param == <<"w1", "w2", "w3">>
       IN  /\ ~Raised(result.out)
           /\ Len(v) = 3 * E + 1
           /\ \A j, k \in 1..Len(v) : j # k => Join(v[j].name) # Join(v[k].name)
           /\ \A e \in 0..(E - 1) : \A p \in 1..3 :
                  v[3 * e + p] =
                      WeightInfo(v[3 * e + p].name)
                  /\ Join(v[3 * e + p].name) =
                      "model.layers." \o L \o ".block_sparse_moe.experts." \o IntToStr(e)
                      \o "." \o param[p] \o ".weight"
           /\ v[3 * E + 1] = WeightInfo(v[3 * E + 1].name)
           /\ Join(v[3 * E + 1].name) = "model.layers." \o L \o ".block_sparse_moe.gate.weight"

\* Expert count 8 and layer index 2: 25 descriptors, the first the w1 of
\* expert 0, the 24th the w3 of expert 7, the last the gate
C5_Witness ==
    /\ IsMixtral
    /\ result.op = "info.layer_weights"
    /\ info[1].num_local_experts = 8
    /\ result.args = <<2>>
    /\ Len(result.out.value) = 25
    /\ Join(result.out.value[1].name) = "model.layers.2.block_sparse_moe.experts.0.w1.weight"
    /\ Join(result.out.value[24].name) = "model.layers.2.block_sparse_moe.experts.7.w3.weight"
    /\ Join(result.out.value[25].name) = "model.layers.2.block_sparse_moe.gate.weight"

----------------------------------------------------------------------------
(* SpecSubst: one definition whose templates take each form of placeholder *)

Arithmetic == {<<>>, <<"+1">>, <<"-1">>}

\* ${id}, ${id+1}, ${id-1} when braced, otherwise $id, $id+1, $id-1
Placeholder(braced, id, ar) ==
    IF braced THEN <<"$", "{", id>> \o ar \o <<"}">> ELSE <<"$", id>> \o ar

\* The part of a template string between its fixed prefix and suffix: one
\* placeholder of the table, braced or not; a placeholder the table does not
\* have; an unbraced placeholder next to a braced one; an escaped delimiter;
\* a delimiter that starts no placeholder; no placeholder at all
Forms ==
    { Placeholder(b, id, ar) :
        b \in BOOLEAN, id \in {"layer_index", "num_layers"}, ar \in Arithmetic }
    \cup { Placeholder(b, "foo", <<>>) : b \in BOOLEAN }
    \cup { <<"$", "layer_index", ".of.">> \o Placeholder(TRUE, "num_layers", <<>>),
           <<"$", "$", ".x.">> \o Placeholder(TRUE, "num_layers", <<>>),
           <<"$", "{", "}">>,
           <<"0">> }

LayerNameOf(f) == <<"model", ".layers.">> \o f \o <<".weight">>
LayerSpaceNameOf(f) == <<"h", ".mid.">> \o f
GlobalNameOf(g) == <<"model", ".pre.">> \o g \o <<".weight">>
GlobalSpaceNameOf(g) == <<"h", ".out.">> \o g

\* The definition whose layer templates take form f and whose pre-layer
\* weight and global procedural space take form g
SubstDefinition(f, g) ==
    JSONArchitectureDefinition("a", <<"X">>,
        <<WeightInfo(GlobalNameOf(g))>>,
        <<[WeightInfo(LayerNameOf(f)) EXCEPT !.input_space = Some(LayerSpaceNameOf(f))]>>,
        <<>>,
        <<ProceduralSpaceInfo(GlobalSpaceNameOf(g), <<(<<"h", ".0">>)>>)>>,
        <<ProceduralSpaceInfo(LayerSpaceNameOf(f), <<(<<"h", ".in">>)>>)>>,
        Some("num_hidden_layers"))

SubstConfigs ==
    { PretrainedConfig(<<"X">>, "a", attrs) :
        attrs \in {NoAttrs} \cup { "num_hidden_layers" :> n : n \in 0..MaxLayers } }

InitSubst ==
    \E f \in Forms, g \in Forms :
        /\ Loaded(<<JsonArchitectureInfo(SubstDefinition(f, g))>>)
        /\ MISTRAL_INFO = JsonArchitectureInfo(SubstDefinition(f, g))

NextSubst ==
    \/ \E cfg \in SubstConfigs : LoadArchitectureInfo(cfg)
    \/ \E index \in 0..MaxLayers : ArchLayerWeights(index)
    \/ ArchPreWeights
    \/ ArchProceduralSpaces

SpecSubst == InitSubst /\ [][NextSubst]_vars

----------------------------------------------------------------------------
(* C6 *)

Delta(ar) == CASE ar = <<>> -> 0 [] ar = <<"+1">> -> 1 [] ar = <<"-1">> -> 0 - 1

\* The name of the one layer-template weight and of the one global
\* procedural space of the resolved definition
LayerTemplateName == info[1].definition.layer_templates.weights[1].name
GlobalSpaceName == info[1].definition.procedural_spaces[1].name

\* C6: for a configuration whose layer count is N and every layer index i in
\* 0..N-1, substituting a layer-scoped descriptor replaces the placeholder
\* layer_index+1 by i+1, layer_index-1 by i-1 and layer_index by i, and
\* num_layers-1 by N-1, num_layers+1 by N+1 and num_layers by N; a descriptor
\* that is not layer-scoped has only the three num_layers entries: they are
\* replaced likewise, and a layer_index placeholder has no entry (KeyError).
C6_SubstitutionTable ==
    /\ (IsJson /\ result.op = "info.layer_weights" /\ LayerCountReadable
              /\ result.args[1] \in 0..(BoundLayerCount - 1))
       => \A ar \in Arithmetic :
              /\ LayerTemplateName = LayerNameOf(Placeholder(TRUE, "layer_index", ar))
                 => /\ ~Raised(result.out)
                    /\ Join(result.out.value[1].name) =
                           "model.layers." \o IntToStr(result.args[1] + Delta(ar)) \o ".weight"
              /\ LayerTemplateName = LayerNameOf(Placeholder(TRUE, "num_layers", ar))
                 => /\ ~Raised(result.out)
                    /\ Join(result.out.value[1].name) =
                           "model.layers." \o IntToStr(BoundLayerCount + Delta(ar)) \o ".weight"
    /\ (IsJson /\ result.op = "info.procedural_spaces" /\ LayerCountReadable)
       => \A ar \in Arithmetic :
              /\ GlobalSpaceName = GlobalSpaceNameOf(Placeholder(TRUE, "num_layers", ar))
                 => \/ Raised(result.out)
                    \/ Join(result.out.value[1].name) =
                           "h.out." \o IntToStr(BoundLayerCount + Delta(ar))
              /\ GlobalSpaceName = GlobalSpaceNameOf(Placeholder(TRUE, "layer_index", ar))
                 => result.out.exc = TemplateKeyError

\* Layer count 2, layer index 1, layer template over ${layer_index+1}: the
\* descriptor of layer 1 is named for 2
C6_Witness ==
    /\ IsJson
    /\ result.op = "info.layer_weights"
    /\ result.args = <<1>>
    /\ config[1].attrs = ("num_hidden_layers" :> 2)
    /\ LayerTemplateName = LayerNameOf(Placeholder(TRUE, "layer_index", <<"+1">>))
    /\ ~Raised(result.out)
    /\ Join(result.out.value[1].name) = "model.layers.2.weight"

\* Layer count 0, global procedural space over ${num_layers-1}: the space is
\* named for -1
C6_WitnessGlobal ==
    /\ IsJson
    /\ result.op = "info.procedural_spaces"
    /\ config[1].attrs = ("num_hidden_layers" :> 0)
    /\ GlobalSpaceName = GlobalSpaceNameOf(Placeholder(TRUE, "num_layers", <<"-1">>))
    /\ ~Raised(result.out)
    /\ Join(result.out.value[1].name) = "h.out.-1"

----------------------------------------------------------------------------
(* C7 *)

\* A delimiter followed by an identifier or by an opening brace
HasPlaceholder(s) ==
    \E i \in 1..(Len(s) - 1) : s[i] = Delimiter /\ (s[i + 1] \in Idents \/ s[i + 1] = "{")

StillHasPlaceholder(item) ==
    \/ HasPlaceholder(item.name)
    \/ /\ item.cls = "WeightInfo"
       /\ \/ item.input_space # None /\ HasPlaceholder(item.input_space[1])
          \/ item.output_space # None /\ HasPlaceholder(item.output_space[1])

\* C7: enumeration never returns a descriptor whose substituted string
\* fields still contain a placeholder; a layer template that references a
\* placeholder with no table entry makes the enumeration fail with a
\* template error.
C7_NoPlaceholderSurvives ==
    (IsJson /\ result.op \in {"info.layer_weights", "info.procedural_spaces"}
        /\ LayerCountReadable)
    => /\ ~Raised(result.out)
          => \A k \in 1..Len(result.out.value) : ~StillHasPlaceholder(result.out.value[k])
       /\ (result.op = "info.layer_weights"
              /\ \E b \in BOOLEAN : LayerTemplateName = LayerNameOf(Placeholder(b, "foo", <<>>)))
          => result.out.exc = TemplateKeyError

----------------------------------------------------------------------------
(* C11 *)

\* A procedural-space template with every placeholder replaced, in its name
\* and in every entry of its list of input space names, for layer count n
\* and, for a per-layer template, layer index idx[1]
EveryPlaceholderReplaced(item, n, idx) ==
    [item EXCEPT
        !.name = TemplateSubstitute(item.name, Substitutions(n, idx)).value,
        !.inputs = [k \in 1..Len(item.inputs) |->
                       TemplateSubstitute(item.inputs[k], Substitutions(n, idx)).value]]

\* C11: for a declarative definition with G global and S per-layer
\* procedural-space templates and layer count N, procedural_spaces returns
\* exactly G + N*S spaces: the G global spaces first, then for each layer
\* index 0..N-1 in ascending order the S per-layer spaces, each with every
\* placeholder replaced in its name and in every entry of its inputs.
C11_SpacesGlobalThenPerLayer ==
    (IsJson /\ result.op = "info.procedural_spaces" /\ LayerCountReadable
        /\ BoundLayerCount >= 0)
    => LET d == info[1].definition
           G == Len(d.procedural_spaces)
           S == Len(d.layer_templates.procedural_spaces)
           N == BoundLayerCount
           v == result.out.value
       IN  /\ ~Raised(result.out)
           /\ Len(v) = G + N * S
           /\ \A k \in 1..G : v[k] = EveryPlaceholderReplaced(d.procedural_spaces[k], N, None)
           /\ \A i \in 0..(N - 1) : \A t \in 1..S :
                  v[G + i * S + t] =
                      EveryPlaceholderReplaced(d.layer_templates.procedural_spaces[t], N, Some(i))

====
